---------------------------- MODULE Spec2Model ----------------------------
(***************************************************************************)
(* A model of the trading bot of ray_scalper: the discovery loop           *)
(* (main.py, listen_for_events), the trade executor, the balance verifier  *)
(* and the position monitor (swap.py, TradingBot).                         *)
(*                                                                         *)
(* The program is single-threaded asyncio: a coroutine runs without        *)
(* interruption from one await to the next.  Every action below is one     *)
(* such run: the resumption of a coroutine at the await it is suspended    *)
(* on (pc), with the result of the awaited call as the action's input,     *)
(* up to the next await.                                                   *)
(***************************************************************************)
EXTENDS Integers, Sequences, FiniteSets, Bags

(***************************************************************************)
(* Bounds of the model.                                                    *)
(***************************************************************************)
NumTokens == 2          \* token addresses the scanner can report: 1..NumTokens
MaxTicks == 2           \* how many times the clock advances in a run
MaxMinRetries == 4      \* largest min_retries tried on verify_token_balance
NumCallers == 6         \* execute_trade calls requested at once (gate alone)
MaxOps == 6             \* get_session / close calls in a run (session alone)

(***************************************************************************)
(* Program constants.                                                      *)
(***************************************************************************)
SemaphoreCapacity == 5        \* asyncio.Semaphore(5)
DefaultMinRetries == 3        \* verify_token_balance(min_retries=3)
MinConfirmations == 2         \* return confirmations >= 2
max_retries == 3              \* execute_trade: max_retries = 3
max_sell_retries == 4         \* monitor_token: max_sell_retries = 4
CooldownSecs == 15            \* cooldown_end_time = time.time() + 15
HoldSecs == 1200              \* time_held >= 20 * 60
ProfitTargetPct == 15         \* profit_pct >= 15
MinLamports == 100000         \* sol_balance < Decimal('0.0001'), in lamports
BuySlippage == 3000           \* BUY params: 'slippage': 3000
DefaultSlippage == 2000       \* execute_trade(slippage_bps=2000)
BasePriority == 100000        \* int(Decimal('0.0001') * 10**9)

Tokens == 1..NumTokens
sol_mint == 0                 \* the base-currency mint
NoToken == 0                  \* current_position = None
NoTime == -1                  \* position_open_time = None
Disc == 0                     \* the task id of listen_for_events
Tasks == {Disc} \cup Tokens   \* task t in Tokens is monitor_token(t)
None == <<>>                  \* a missing token_info / a failed read

(***************************************************************************)
(* What the outside world can answer.                                      *)
(***************************************************************************)
\* get_token_account_info: None, or a reading <<raw_amount>> (ui_amount is
\* the same quantity scaled by the token's decimals; the model takes
\* decimals = 0, so ui_amount = raw_amount).
Amounts == {0, 50, 100}
Reads == {None} \cup {<<a>> : a \in Amounts}
\* readings tried on the verifier alone: a negative amount as well
VAmounts == {-1, 0, 50, 100}
VReads == {None} \cup {<<a>> : a \in VAmounts}
\* get_token_price: Decimal(0) when the fetch fails, else the price
Prices == {0, 100, 115}
\* getBalance in lamports; None when the request fails
SolReads == {None, <<99999>>, <<1000000>>}
SwapResults == {"neterr", "exc", "fail", "ok"}
SendResults == {"neterr", "exc", "transient", "terminal", "ok"}

VARIABLES
    now,                 \* time.time(), seconds
    current_position,    \* TradingBot.current_position
    position_open_time,  \* TradingBot.position_open_time
    blacklisted_tokens,  \* TradingBot.blacklisted_tokens
    buy_price,           \* TradingBot.buy_price
    session,             \* TradingBot.session: "none", "open", "closed"
    semaphore,           \* free permits of TradingBot.semaphore
    cooldown_end_time,   \* TradingBot.cooldown_end_time
    trades_executed,     \* TradingBot.trades_executed
    total_profit,        \* TradingBot.total_profit
    task,                \* the coroutines: where each is suspended, its locals
    log,                 \* what the last step wrote to the logger, and who
    v_n,                 \* verifier alone: min_retries
    v_reads,             \* verifier alone: the reads answered so far
    v_st,                \* verifier alone: the state of the call
    calls,               \* gate alone: the execute_trade calls in progress
    s_ops,               \* session alone: the calls made so far
    released             \* session alone: ClientSession.close() calls made

botvars == <<now, current_position, position_open_time, blacklisted_tokens,
             buy_price, session, semaphore, cooldown_end_time,
             trades_executed, total_profit, task, log>>
vvars == <<v_n, v_reads, v_st>>
hvars == <<calls, s_ops, released>>
vars == <<now, current_position, position_open_time, blacklisted_tokens,
          buy_price, session, semaphore, cooldown_end_time,
          trades_executed, total_profit, task, log, v_n, v_reads, v_st,
          calls, s_ops, released>>

(***************************************************************************)
(* verify_token_balance (swap.py 165-187).  The state of one call: the     *)
(* number of loop iterations done, the locals confirmations and last_info, *)
(* and, once it has returned, the returned pair (valid, info).             *)
(***************************************************************************)
\* mutant: one confirmation is enough
ConfirmedAtOne(confirmations) == confirmations >= 1

\* mutants: one confirmation more is asked for; none is asked for
ConfirmedStrict(confirmations) == confirmations > MinConfirmations
ConfirmedLoose(confirmations) == confirmations >= 0
Confirmed(confirmations) == confirmations >= MinConfirmations

\* mutant: only a negative amount counts as empty
IsEmptyBalanceNegativeOnly(raw_amount) == raw_amount < 0

\* a reading that makes the verifier give up at once
IsEmptyBalance(raw_amount) == raw_amount <= 0

VBegin(n) ==
    IF n <= 0
    THEN [i |-> 0, confirmations |-> 0, last_info |-> None,
          done |-> TRUE, valid |-> Confirmed(0), info |-> None]
    ELSE [i |-> 0, confirmations |-> 0, last_info |-> None,
          done |-> FALSE, valid |-> FALSE, info |-> None]

\* mutant: a failed read resets the confirmation counter
VBodyFailedReadResets(v, r) ==
    IF r = None
    THEN [v EXCEPT !.i = @ + 1, !.confirmations = 0]
    ELSE IF IsEmptyBalance(r[1])
    THEN [v EXCEPT !.i = @ + 1, !.done = TRUE, !.valid = FALSE, !.info = None]
    ELSE [v EXCEPT !.i = @ + 1,
                   !.confirmations =
                       IF v.last_info # None /\ r[1] = v.last_info[1]
                       THEN @ + 1 ELSE 0,
                   !.last_info = r]

\* the body of the for loop on the reading r
VBody(v, r) ==
    IF r = None
    THEN [v EXCEPT !.i = @ + 1]
    ELSE IF IsEmptyBalance(r[1])
    THEN [v EXCEPT !.i = @ + 1, !.done = TRUE, !.valid = FALSE, !.info = None]
    ELSE [v EXCEPT !.i = @ + 1,
                   !.confirmations =
                       IF v.last_info # None /\ r[1] = v.last_info[1]
                       THEN @ + 1 ELSE 0,
                   !.last_info = r]

\* one iteration, and the return after the last one
VStep(v, r, n) ==
    LET w == VBody(v, r) IN
    IF ~w.done /\ w.i >= n
    THEN [w EXCEPT !.done = TRUE, !.valid = Confirmed(w.confirmations),
                   !.info = w.last_info]
    ELSE w

(***************************************************************************)
(* The coroutines.  task[Disc] is listen_for_events, task[t] for a token t *)
(* is monitor_token(t).  A frame holds the await the coroutine is          *)
(* suspended on (pc) and the locals that are live there; a local that is   *)
(* dead (never read again before it is next assigned) is kept at its       *)
(* resting value.  The fields action .. params are the frame of the        *)
(* execute_trade call the coroutine is in.                                 *)
(***************************************************************************)
Blank ==
    [pc |-> "none",
     token |-> NoToken,             \* token_address
     action |-> "none",             \* execute_trade: action
     attempt |-> 0,                 \* execute_trade: attempt
     priority_multiplier |-> 10,    \* execute_trade: in tenths (Decimal('1'))
     slippage_bps |-> DefaultSlippage,
     v |-> VBegin(DefaultMinRetries), \* the verify_token_balance call in progress
     token_info |-> None,           \* execute_trade: token_info
     params |-> None,               \* the swap request in flight
     result |-> FALSE,              \* trade_result (main.py) / success (monitor)
     retry_count |-> 0]             \* monitor_token: retry_count

ExecPcs == {"gate", "bal", "sv", "swap", "send", "price",
            "backoff_in", "backoff_out"}
InExec(f) == f.pc \in ExecPcs

NoLog == [by |-> -1, msgs |-> <<>>]
Logged(self, msgs) == IF msgs = <<>> THEN NoLog ELSE [by |-> self, msgs |-> msgs]

\* get_session (swap.py 58-64): a new session when there is none, or a closed one
GetSession(s) == IF s = "none" \/ s = "closed" THEN "open" ELSE s

\* the frame in which a coroutine enters execute_trade (swap.py 189-195)
Call(f, action, mult, slip) ==
    [f EXCEPT !.pc = "gate", !.action = action, !.attempt = 0,
              !.priority_multiplier = mult, !.slippage_bps = slip,
              !.token_info = None, !.params = None, !.result = FALSE,
              !.v = VBegin(DefaultMinRetries)]

\* monitor_token 382-383 and 389-390: the parameters of the sell attempt made
\* with retry_count = k; multipliers in tenths
multipliers == <<10, 15, 20, 30>>
slippages == <<2000, 3000, 4000, 5000>>
SellMultiplier(k) == multipliers[k + 1]
\* mutant: the slippage does not escalate
SellSlippageFlat(k) == slippages[1]
SellSlippage(k) == slippages[k + 1]

\* monitor_token 385: while retry_count < max_sell_retries and self.current_position
SellLoopGuard(k, pos) == k < max_sell_retries /\ pos # NoToken

\* the monitor at the head of its sell loop (swap.py 385-391), with
\* retry_count = k: the next sell attempt, or the end of the task
SellLoop(f, k, pos) ==
    IF SellLoopGuard(k, pos)
    THEN [Call(f, "SELL", SellMultiplier(k), SellSlippage(k))
             EXCEPT !.retry_count = k]
    ELSE [Blank EXCEPT !.pc = "done", !.token = f.token]

\* mutant: the monitor is created whatever execute_trade returned
SpawnsMonitorAlways(trade_result) == TRUE

\* main.py 127-131: what listen_for_events does with a true trade_result
SpawnsMonitor(trade_result) == trade_result

\* mutant: after a failed sell the monitor goes to its backoff sleep without
\* verifying the balance
RetNoReverify(tk, self, res) ==
    LET f == tk[self] IN
    IF self = Disc
    THEN IF SpawnsMonitor(res)
         THEN [tk EXCEPT ![Disc] = [Blank EXCEPT !.pc = "sleep10",
                                          !.token = f.token, !.result = res],
                         ![f.token] = [Blank EXCEPT !.pc = "new",
                                             !.token = f.token]]
         ELSE [tk EXCEPT ![Disc] = [Blank EXCEPT !.pc = "sleep10",
                                          !.token = f.token, !.result = res]]
    ELSE IF res
         THEN [tk EXCEPT ![self] = [Blank EXCEPT !.pc = "done", !.token = f.token]]
         ELSE [tk EXCEPT ![self] = [Blank EXCEPT !.pc = "sellsleep",
                                          !.token = f.token,
                                          !.retry_count = f.retry_count + 1]]

\* The caller takes the value execute_trade returns and runs to its next
\* await.  listen_for_events (main.py 126-133): on success it records the
\* position, blacklists the token and creates the monitor task, then sleeps.
\* monitor_token (swap.py 392-395): on success the task ends, otherwise it
\* starts the balance verification between attempts.
Ret(tk, self, res) ==
    LET f == tk[self] IN
    IF self = Disc
    THEN IF SpawnsMonitor(res)
         THEN [tk EXCEPT ![Disc] = [Blank EXCEPT !.pc = "sleep10",
                                          !.token = f.token, !.result = res],
                         ![f.token] = [Blank EXCEPT !.pc = "new",
                                             !.token = f.token]]
         ELSE [tk EXCEPT ![Disc] = [Blank EXCEPT !.pc = "sleep10",
                                          !.token = f.token, !.result = res]]
    ELSE IF res
         THEN [tk EXCEPT ![self] = [Blank EXCEPT !.pc = "done", !.token = f.token]]
         ELSE [tk EXCEPT ![self] = [Blank EXCEPT !.pc = "vb", !.token = f.token,
                                          !.retry_count = f.retry_count]]

\* mutant: a bought token is not put on the blacklist
BlacklistForgets(self, res, token, bl) == bl

\* main.py 129 after a BUY that returned res
BlacklistAfterBuy(self, res, token, bl) ==
    IF self = Disc /\ res THEN bl \cup {token} ELSE bl

posvars == <<current_position, position_open_time, buy_price,
             cooldown_end_time, trades_executed, total_profit>>

(***************************************************************************)
(* execute_trade (swap.py 189-317).                                        *)
(***************************************************************************)
\* mutant: the comparison is turned round
CooldownInverted(current_time, cooldown_end) == current_time > cooldown_end

\* swap.py 202: the cooldown test of a BUY
CooldownActive(current_time, cooldown_end) == current_time < cooldown_end

\* a return False from inside "async with self.semaphore": the permit is
\* given back and the caller goes on
ExecFail(self, msgs) ==
    /\ task' = Ret(task, self, FALSE)
    /\ semaphore' = semaphore + 1
    /\ log' = Logged(self, msgs)

\* mutant: the gate lets every call through
PermitFreeAlways(free) == TRUE

\* 197: async with self.semaphore goes on when a permit is free
PermitFree(free) == free > 0

\* 195-205 (BUY) and 195-199, 223 (SELL): a permit is taken, the session is
\* there, and the attempt runs to its first request.
ExecGate(self) ==
    LET f == task[self] IN
    /\ f.pc = "gate"
    /\ PermitFree(semaphore)
    /\ session' = GetSession(session)
    /\ IF f.action = "BUY"
       THEN IF CooldownActive(now, cooldown_end_time)
            THEN /\ task' = Ret(task, self, FALSE)
                 /\ semaphore' = semaphore
                 /\ log' = Logged(self, <<"Cooldown active">>)
            ELSE /\ task' = [task EXCEPT ![self].pc = "bal"]
                 /\ semaphore' = semaphore - 1
                 /\ log' = NoLog
       ELSE /\ task' = [task EXCEPT ![self].pc = "sv",
                                    ![self].v = VBegin(DefaultMinRetries)]
            /\ semaphore' = semaphore - 1
            /\ log' = NoLog
    /\ UNCHANGED <<now, posvars, blacklisted_tokens, vvars, hvars>>

\* swap.py 208: the dust threshold on the balance in lamports
InsufficientSol(lamports) == lamports < MinLamports

\* 207-221 with get_sol_balance (319-335): the answer to getBalance
ExecBal(self, r) ==
    LET f == task[self]
        lamports == IF r = None THEN 0 ELSE r[1]
    IN
    /\ f.pc = "bal"
    /\ IF InsufficientSol(lamports)
       THEN ExecFail(self, (IF r = None THEN <<"SOL balance check failed">>
                            ELSE <<>>) \o <<"Insufficient SOL balance">>)
       ELSE /\ task' = [task EXCEPT ![self].pc = "swap",
                           ![self].params =
                               <<[fromMint |-> sol_mint, toMint |-> f.token,
                                  amount |-> lamports \div 10,
                                  slippage |-> BuySlippage,
                                  priorityMicroLamports |-> BasePriority]>>]
            /\ semaphore' = semaphore
            /\ log' = NoLog
    /\ UNCHANGED <<now, posvars, blacklisted_tokens, session, vvars, hvars>>

ZeroLog(r) ==
    IF r # None /\ IsEmptyBalance(r[1]) THEN <<"Zero balance detected">> ELSE <<>>

\* mutant: half of the balance is put up for sale
SellAmountHalf(token_info) == token_info[1] \div 2

\* 228 and 236: raw_amount = token_info['raw_amount'], 'amount': str(raw_amount)
SellAmount(token_info) == token_info[1]

\* 223-241: one read of the verify_token_balance call of a SELL, and after
\* the last one the checks on its result and the swap request
ExecVerify(self, r) ==
    LET f == task[self]
        w == VStep(f.v, r, DefaultMinRetries)
    IN
    /\ f.pc = "sv"
    /\ IF ~w.done
       THEN /\ task' = [task EXCEPT ![self].v = w]
            /\ semaphore' = semaphore
            /\ log' = NoLog
       ELSE IF ~w.valid \/ w.info = None
       THEN ExecFail(self, ZeroLog(r) \o
                           <<"Failed to verify token balance for sale">>)
       ELSE IF w.info[1] <= 0
       THEN ExecFail(self, <<"No token balance to sell">>)
       ELSE /\ task' = [task EXCEPT ![self].pc = "swap",
                           ![self].v = VBegin(DefaultMinRetries),
                           ![self].token_info = w.info,
                           ![self].params =
                               <<[fromMint |-> f.token, toMint |-> sol_mint,
                                  amount |-> SellAmount(w.info),
                                  slippage |-> f.slippage_bps,
                                  priorityMicroLamports |->
                                      (BasePriority * f.priority_multiplier) \div 10]>>]
            /\ semaphore' = semaphore
            /\ log' = NoLog
    /\ UNCHANGED <<now, posvars, blacklisted_tokens, session, vvars, hvars>>

\* 308: whether a network error is retried
NetRetry(attempt) == attempt < max_retries

\* 307-313: aiohttp.ClientError / asyncio.TimeoutError out of the attempt;
\* the permit was given back on the way out of "async with"
ExecNetErr(self) ==
    IF NetRetry(task[self].attempt)
    THEN /\ task' = [task EXCEPT ![self].pc = "backoff_out",
                                 ![self].params = None,
                                 ![self].token_info = None]
         /\ semaphore' = semaphore + 1
         /\ log' = Logged(self, <<"Network error, retrying">>)
    ELSE ExecFail(self, <<"Network failure after retries">>)

\* mutant: a refused swap is retried like a network error
SwapRefusedRetries(self) ==
    /\ task' = [task EXCEPT ![self].pc = "backoff_out",
                            ![self].params = None,
                            ![self].token_info = None]
    /\ semaphore' = semaphore + 1
    /\ log' = Logged(self, <<"Swap API error">>)

\* what execute_trade does on a swap answer with success = false (249-253)
\* and on a broadcast error that is not a known transient one (282-283)
SwapRefused(self) == ExecFail(self, <<"Swap API error">>)
SendRefused(self) == ExecFail(self, <<"Transaction failed">>)

\* 243-256: the answer of the swap gateway
ExecSwap(self, r) ==
    LET f == task[self] IN
    /\ f.pc = "swap"
    /\ CASE r = "neterr" -> ExecNetErr(self)
         [] r = "exc" -> ExecFail(self, <<"Trade execution failed">>)
         [] r = "fail" -> SwapRefused(self)
         [] OTHER -> /\ task' = [task EXCEPT ![self].pc = "send",
                                             ![self].params = None]
                     /\ semaphore' = semaphore
                     /\ log' = NoLog
    /\ UNCHANGED <<now, posvars, blacklisted_tokens, session, vvars, hvars>>

\* 258-296: the answer to sendTransaction
ExecSend(self, r) ==
    LET f == task[self] IN
    /\ f.pc = "send"
    /\ CASE r = "neterr" -> ExecNetErr(self)
         [] r = "transient" ->
                /\ task' = [task EXCEPT ![self].pc = "backoff_in",
                                        ![self].token_info = None]
                /\ semaphore' = semaphore
                /\ log' = Logged(self, <<"Transient error detected, retrying">>)
         [] r = "terminal" -> SendRefused(self)
         [] r = "exc" -> ExecFail(self, <<"Trade execution failed">>)
         [] OTHER -> /\ task' = [task EXCEPT ![self].pc = "price"]
                     /\ semaphore' = semaphore
                     /\ log' = NoLog
    /\ UNCHANGED <<now, posvars, blacklisted_tokens, session, vvars, hvars>>

\* mutant: the quantity sold is left out of the profit
ProfitPerUnit(sell_price, bought_at, ui_amount) == sell_price - bought_at

\* 298: profit of a sale; ui_amount is the reading's amount
Profit(sell_price, bought_at, ui_amount) == (sell_price - bought_at) * ui_amount

\* mutant: a purchase is not counted
CountTradeForgotten(n) == n

\* 293: self.trades_executed += 1
CountTrade(n) == n + 1

\* mutant: a purchase stands whatever the price oracle answered
BuyPriceMissingNever(price) == FALSE

\* 287: if not self.buy_price
BuyPriceMissing(price) == price = 0

\* 285-305 with get_token_price (337-348): the answer of the price oracle
\* after the broadcast was accepted
ExecPrice(self, p) ==
    LET f == task[self] IN
    /\ f.pc = "price"
    /\ IF f.action = "BUY"
       THEN /\ buy_price' = p
            /\ IF BuyPriceMissing(p)
               THEN /\ ExecFail(self, <<"Price check failed",
                                        "Failed to verify buy price">>)
                    /\ UNCHANGED <<current_position, position_open_time,
                                   trades_executed, blacklisted_tokens>>
               ELSE /\ current_position' = f.token
                    /\ position_open_time' = now
                    /\ trades_executed' = CountTrade(trades_executed)
                    /\ task' = Ret(task, self, TRUE)
                    /\ blacklisted_tokens' =
                           BlacklistAfterBuy(self, TRUE, f.token, blacklisted_tokens)
                    /\ semaphore' = semaphore + 1
                    /\ log' = Logged(self, <<"Bought">>)
            /\ UNCHANGED <<cooldown_end_time, total_profit>>
       ELSE /\ IF p # 0 /\ f.token_info # None
               THEN /\ total_profit' =
                           total_profit + Profit(p, buy_price, f.token_info[1])
                    /\ log' = Logged(self, <<"Sold">>)
               ELSE /\ total_profit' = total_profit
                    /\ log' = Logged(self, IF p = 0 THEN <<"Price check failed">>
                                           ELSE <<>>)
            /\ current_position' = NoToken
            /\ position_open_time' = NoTime
            /\ cooldown_end_time' = now + CooldownSecs
            /\ task' = Ret(task, self, TRUE)
            /\ semaphore' = semaphore + 1
            /\ UNCHANGED <<buy_price, trades_executed, blacklisted_tokens>>
    /\ UNCHANGED <<now, session, vvars, hvars>>

\* mutant: one attempt too many
AttemptsLeftOffByOne(attempt) == attempt <= max_retries

\* 195 and 317: the for loop has attempts left
AttemptsLeft(attempt) == attempt < max_retries

\* the end of the backoff sleep (279-280 inside the permit, 310-311 outside):
\* the next attempt, or return False (317) when the for loop is exhausted
ExecBackoff(self) ==
    LET f == task[self]
        held == IF f.pc = "backoff_in" THEN 1 ELSE 0
    IN
    /\ f.pc \in {"backoff_in", "backoff_out"}
    /\ semaphore' = semaphore + held
    /\ IF AttemptsLeft(f.attempt)
       THEN /\ task' = [task EXCEPT ![self].pc = "gate",
                                    ![self].attempt = f.attempt + 1]
            /\ log' = NoLog
       ELSE /\ task' = Ret(task, self, FALSE)
            /\ log' = NoLog
    /\ UNCHANGED <<now, posvars, blacklisted_tokens, session, vvars, hvars>>

(***************************************************************************)
(* monitor_token (swap.py 350-413).                                        *)
(***************************************************************************)
\* 351: the while condition of the monitor of token t
StillMine(t, pos) == pos = t

\* mutant: a loss of 10 % or more triggers an exit
ExitReasonStopLoss(current_price, bought_at, time_held) ==
    IF (current_price - bought_at) * 100 >= ProfitTargetPct * bought_at
    THEN "profit"
    ELSE IF time_held >= HoldSecs THEN "timeout"
    ELSE IF (current_price - bought_at) * 100 <= (0 - 10) * bought_at
    THEN "stoploss"
    ELSE "none"

\* mutant: the holding time is tested before the profit
ExitReasonTimeoutFirst(current_price, bought_at, time_held) ==
    IF time_held >= HoldSecs THEN "timeout"
    ELSE IF (current_price - bought_at) * 100 >= ProfitTargetPct * bought_at
    THEN "profit" ELSE "none"

\* 358-365.  profit_pct = ((current_price - buy_price) / buy_price) * 100 is
\* compared with 15 without the division: for buy_price > 0 the two agree
\* (0.15 is a Decimal, so rounding the quotient cannot cross it).
ExitReason(current_price, bought_at, time_held) ==
    IF (current_price - bought_at) * 100 >= ProfitTargetPct * bought_at
    THEN "profit"
    ELSE IF time_held >= HoldSecs THEN "timeout" ELSE "none"

\* mutant: the task does not end, it goes on with its loop
MonDoneStaysAlive(t) == [Blank EXCEPT !.pc = "sleep2", !.token = t]

MonDone(t) == [Blank EXCEPT !.pc = "done", !.token = t]

\* 351-353: the task starts, or wakes from the sleep at the end of an
\* iteration (355, 410, 413), and tests the while condition
MonWake(t) ==
    LET f == task[t] IN
    /\ f.pc \in {"new", "sleep2", "sleep5"}
    /\ IF StillMine(t, current_position)
       THEN /\ task' = [task EXCEPT ![t].pc = "poll"]
            /\ session' = GetSession(session)
       ELSE /\ task' = [task EXCEPT ![t] = MonDone(t)]
            /\ session' = session
    /\ log' = NoLog
    /\ UNCHANGED <<now, posvars, blacklisted_tokens, semaphore, vvars, hvars>>

\* mutant: a poll without a price goes on to the exit conditions
NoPriceNever(current_price) == FALSE

\* 354: if not current_price (get_token_price answers Decimal(0) on failure)
NoPrice(current_price) == current_price = 0

\* 353-370: the answer of the price oracle in the monitor loop
MonPoll(t, p) ==
    LET f == task[t] IN
    /\ f.pc = "poll"
    /\ IF NoPrice(p)
       THEN /\ task' = [task EXCEPT ![t].pc = "sleep2"]
            /\ log' = Logged(t, <<"Price check failed">>)
       ELSE IF buy_price = 0 \/ position_open_time = NoTime
       THEN \* division by zero / None in arithmetic: except Exception (411-413)
            /\ task' = [task EXCEPT ![t].pc = "sleep5"]
            /\ log' = Logged(t, <<"Monitoring error">>)
       ELSE LET why == ExitReason(p, buy_price, now - position_open_time) IN
            IF why = "none"
            THEN /\ task' = [task EXCEPT ![t].pc = "sleep2"]
                 /\ log' = NoLog
            ELSE /\ task' = [task EXCEPT ![t].pc = "v1",
                                         ![t].v = VBegin(DefaultMinRetries)]
                 /\ log' = Logged(t, <<"Exit triggered", why>>)
    /\ UNCHANGED <<now, posvars, blacklisted_tokens, session, semaphore, vvars, hvars>>

\* mutant: the monitor gives up after the first failed sell attempt
AfterReverifyGivesUp(f, pos) == MonDone(f.token)

\* 401-407: after a failed sell attempt whose re-verification succeeded
AfterReverify(f, pos) ==
    LET k == f.retry_count + 1 IN
    IF k < max_sell_retries
    THEN [Blank EXCEPT !.pc = "sellsleep", !.token = f.token, !.retry_count = k]
    ELSE SellLoop(f, k, pos)

\* mutant: the position is not cleared when it is given up
AbandonKeepsPosition ==
    UNCHANGED <<current_position, cooldown_end_time, trades_executed,
                total_profit>>

\* mutant: giving a position up starts the cooldown, as a sale does
AbandonStartsCooldown ==
    /\ current_position' = NoToken
    /\ cooldown_end_time' = now + CooldownSecs
    /\ UNCHANGED <<trades_executed, total_profit>>

\* 377 and 398: self.current_position = None, the one assignment made when
\* the monitor gives the position up
AbandonPosition ==
    /\ current_position' = NoToken
    /\ UNCHANGED <<cooldown_end_time, trades_executed, total_profit>>

\* 370-380 and 395-399: one read of a verify_token_balance call made by the
\* monitor itself: after the exit trigger (v1), its one repetition (v2), and
\* between two sell attempts (vb)
MonVerify(t, r) ==
    LET f == task[t]
        w == VStep(f.v, r, DefaultMinRetries)
    IN
    /\ f.pc \in {"v1", "v2", "vb"}
    /\ IF ~w.done
       THEN /\ task' = [task EXCEPT ![t].v = w]
            /\ log' = NoLog
            /\ UNCHANGED <<current_position, cooldown_end_time,
                           trades_executed, total_profit>>
       ELSE IF w.valid
       THEN /\ task' = [task EXCEPT ![t] =
                           IF f.pc = "vb" THEN AfterReverify(f, current_position)
                           ELSE SellLoop(f, 0, current_position)]
            /\ log' = IF f.pc = "vb" /\ f.retry_count + 1 < max_sell_retries
                      THEN Logged(t, <<"Retrying sell">>) ELSE NoLog
            /\ UNCHANGED <<current_position, cooldown_end_time,
                           trades_executed, total_profit>>
       ELSE IF f.pc = "v1"
       THEN /\ task' = [task EXCEPT ![t] = [Blank EXCEPT !.pc = "vpause",
                                                          !.token = t]]
            /\ log' = Logged(t, ZeroLog(r) \o
                                <<"Failed to verify token balance for sale">>)
            /\ UNCHANGED <<current_position, cooldown_end_time,
                           trades_executed, total_profit>>
       ELSE /\ task' = [task EXCEPT ![t] = MonDone(t)]
            /\ AbandonPosition
            /\ log' = Logged(t, ZeroLog(r) \o
                         <<IF f.pc = "v2"
                           THEN "Token balance verification failed after retry"
                           ELSE "Lost token balance during sell attempts">>)
    /\ UNCHANGED <<now, position_open_time, buy_price, blacklisted_tokens,
                   session, semaphore, vvars, hvars>>

\* 373-374: the pause before the one repetition of the verification
MonPause(t) ==
    LET f == task[t] IN
    /\ f.pc = "vpause"
    /\ task' = [task EXCEPT ![t].pc = "v2", ![t].v = VBegin(DefaultMinRetries)]
    /\ log' = NoLog
    /\ UNCHANGED <<now, posvars, blacklisted_tokens, session, semaphore, vvars, hvars>>

\* 407, 385: the sleep between two sell attempts ends
MonSellSleep(t) ==
    LET f == task[t] IN
    /\ f.pc = "sellsleep"
    /\ task' = [task EXCEPT ![t] = SellLoop(f, f.retry_count, current_position)]
    /\ log' = NoLog
    /\ UNCHANGED <<now, posvars, blacklisted_tokens, session, semaphore, vvars, hvars>>

(***************************************************************************)
(* listen_for_events (main.py 69-137).                                     *)
(***************************************************************************)
\* mutant: the loop does not look at the position
InPositionNever(pos) == FALSE

\* main.py 75: if bot.current_position
InPosition(pos) == pos # NoToken

DiscAt(pc) == [Blank EXCEPT !.pc = pc]

\* 72-80: the loop starts an iteration (at the start, or after a sleep)
DiscWake ==
    LET f == task[Disc] IN
    /\ f.pc \in {"start", "sleep3", "sleep10"}
    /\ task' = [task EXCEPT ![Disc] =
                   IF InPosition(current_position)
                   THEN DiscAt("sleep3") ELSE DiscAt("scan")]
    /\ log' = NoLog
    /\ UNCHANGED <<now, posvars, blacklisted_tokens, session, semaphore, vvars, hvars>>

\* 80-96: the scanner's answer: no token (NoToken), or the top token
DiscScan(top) ==
    LET f == task[Disc] IN
    /\ f.pc = "scan"
    /\ IF top = NoToken
       THEN /\ task' = [task EXCEPT ![Disc] = DiscAt("sleep10")]
            /\ log' = Logged(Disc, <<"No trending tokens found">>)
       ELSE IF top \in blacklisted_tokens
       THEN /\ task' = [task EXCEPT ![Disc] = DiscAt("sleep10")]
            /\ log' = Logged(Disc, <<"Already traded">>)
       ELSE /\ task' = [task EXCEPT ![Disc] = [DiscAt("mcap") EXCEPT !.token = top]]
            /\ log' = NoLog
    /\ UNCHANGED <<now, posvars, blacklisted_tokens, session, semaphore, vvars, hvars>>

\* 96-108: the market cap arrived; ok when it is there and within
\* [500_000, 40_000_000]
DiscMcap(ok) ==
    LET f == task[Disc] IN
    /\ f.pc = "mcap"
    /\ task' = [task EXCEPT ![Disc] =
                   IF ok THEN [f EXCEPT !.pc = "pair"] ELSE DiscAt("sleep10")]
    /\ log' = IF ok THEN NoLog ELSE Logged(Disc, <<"Skipping (market cap)">>)
    /\ UNCHANGED <<now, posvars, blacklisted_tokens, session, semaphore, vvars, hvars>>

\* 108-126: the pair data arrived; ok when predict_upward_movement says so.
\* Then execute_trade(token_address, TradeAction.BUY) is called.
DiscPair(ok) ==
    LET f == task[Disc] IN
    /\ f.pc = "pair"
    /\ task' = [task EXCEPT ![Disc] =
                   IF ok THEN Call(f, "BUY", 10, DefaultSlippage)
                   ELSE DiscAt("sleep10")]
    /\ log' = IF ok THEN NoLog ELSE Logged(Disc, <<"Skipping (pair data)">>)
    /\ UNCHANGED <<now, posvars, blacklisted_tokens, session, semaphore, vvars, hvars>>

(***************************************************************************)
(* The clock.  The program reads time.time() in two comparisons only:      *)
(* current_time < cooldown_end_time (202) and time_held >= 20 * 60 (364).  *)
(* The clock therefore advances from one instant at which one of them      *)
(* changes to a later one: the end of the cooldown, or the moment the open *)
(* position has been held 20 minutes.  Every such instant is a sum of      *)
(* steps of 15 s and of 1200 s, and NumTicks counts the steps behind it.   *)
(***************************************************************************)
NumTicks(t) == (t \div HoldSecs) + ((t % HoldSecs) \div CooldownSecs)

Deadlines ==
    {cooldown_end_time} \cup
    (IF position_open_time = NoTime THEN {} ELSE {position_open_time + HoldSecs})

Tick(d) ==
    /\ d > now
    /\ NumTicks(d) <= MaxTicks
    /\ now' = d
    /\ log' = NoLog
    /\ UNCHANGED <<posvars, blacklisted_tokens, session, semaphore, task, vvars, hvars>>

(***************************************************************************)
(* The bot: TradingBot.__init__ (swap.py 37-48), then listen_for_events.   *)
(***************************************************************************)
BotInit ==
    /\ now = 0
    /\ current_position = NoToken
    /\ position_open_time = NoTime
    /\ blacklisted_tokens = {}
    /\ buy_price = 0
    /\ session = "none"
    /\ semaphore = SemaphoreCapacity
    /\ cooldown_end_time = 0
    /\ trades_executed = 0
    /\ total_profit = 0
    /\ task = [x \in Tasks |-> IF x = Disc THEN DiscAt("start") ELSE Blank]
    /\ log = NoLog

\* the variables of the specifications of one part alone, at rest
HIdle ==
    /\ calls = EmptyBag
    /\ s_ops = <<>>
    /\ released = 0

Init ==
    /\ BotInit
    /\ v_n = DefaultMinRetries
    /\ v_reads = <<>>
    /\ v_st = VBegin(DefaultMinRetries)
    /\ HIdle

Next ==
    \/ \E self \in Tasks : ExecGate(self)
    \/ \E self \in Tasks, r \in SolReads : ExecBal(self, r)
    \/ \E self \in Tasks, r \in Reads : ExecVerify(self, r)
    \/ \E self \in Tasks, r \in SwapResults : ExecSwap(self, r)
    \/ \E self \in Tasks, r \in SendResults : ExecSend(self, r)
    \/ \E self \in Tasks, p \in Prices : ExecPrice(self, p)
    \/ \E self \in Tasks : ExecBackoff(self)
    \/ \E t \in Tokens : MonWake(t)
    \/ \E t \in Tokens, p \in Prices : MonPoll(t, p)
    \/ \E t \in Tokens, r \in Reads : MonVerify(t, r)
    \/ \E t \in Tokens : MonPause(t)
    \/ \E t \in Tokens : MonSellSleep(t)
    \/ DiscWake
    \/ \E top \in {NoToken} \cup Tokens : DiscScan(top)
    \/ \E ok \in BOOLEAN : DiscMcap(ok)
    \/ \E ok \in BOOLEAN : DiscPair(ok)
    \/ \E d \in Deadlines : Tick(d)

Spec == Init /\ [][Next]_vars

(***************************************************************************)
(* verify_token_balance alone: any min_retries up to MaxMinRetries, any    *)
(* sequence of reads.  v_reads is the sequence of reads answered so far.   *)
(***************************************************************************)
VInit ==
    /\ BotInit
    /\ v_n \in 0..MaxMinRetries
    /\ v_reads = <<>>
    /\ v_st = VBegin(v_n)
    /\ HIdle

VRead(r) ==
    /\ ~v_st.done
    /\ v_st' = VStep(v_st, r, v_n)
    /\ v_reads' = Append(v_reads, r)
    /\ UNCHANGED <<v_n, botvars, hvars>>

VNext == \E r \in VReads : VRead(r)

VSpec == VInit /\ [][VNext]_vars

(***************************************************************************)
(* The concurrency gate of execute_trade alone (swap.py 195-317): NumCallers *)
(* calls requested at once.  The calls are alike, so the calls in progress *)
(* are a bag of frames (pc, attempt): "gate" waits for a permit, "in" holds *)
(* one and does the work of the attempt, "backoff_in" sleeps before the    *)
(* continue at 280 (inside async with), "backoff_out" sleeps before the    *)
(* continue at 311 (outside).  A call that returned has left the bag.      *)
(***************************************************************************)
gothers == <<now, posvars, blacklisted_tokens, session, task, log, vvars,
             s_ops, released>>
GFrame(pc, attempt) == [pc |-> pc, attempt |-> attempt]
GOne(f) == SetToBag({f})
GMove(f, g) == calls' = (calls (-) GOne(f)) (+) GOne(g)
GLeave(f) == calls' = calls (-) GOne(f)

\* how an attempt that holds a permit ends: a return (205, 210, 226, 231,
\* 253, 283, 289, 305), any other exception (314-316), a known transient
\* broadcast error (277-280), a network error or timeout (307-313)
GWays == {"return", "exc", "transient", "neterr"}

GInit ==
    /\ BotInit
    /\ v_n = DefaultMinRetries
    /\ v_reads = <<>>
    /\ v_st = VBegin(DefaultMinRetries)
    /\ calls = [f \in {GFrame("gate", 0)} |-> NumCallers]
    /\ s_ops = <<>>
    /\ released = 0

\* 197: a waiting call takes a permit
GGate(f) ==
    /\ BagIn(f, calls)
    /\ f.pc = "gate"
    /\ PermitFree(semaphore)
    /\ semaphore' = semaphore - 1
    /\ GMove(f, [f EXCEPT !.pc = "in"])
    /\ UNCHANGED gothers

\* 198-316: the attempt ends
GExit(f, way) ==
    /\ BagIn(f, calls)
    /\ f.pc = "in"
    /\ CASE way = "transient" ->
                /\ semaphore' = semaphore
                /\ GMove(f, [f EXCEPT !.pc = "backoff_in"])
         [] way = "neterr" ->
                /\ semaphore' = semaphore + 1
                /\ IF NetRetry(f.attempt)
                   THEN GMove(f, [f EXCEPT !.pc = "backoff_out"])
                   ELSE GLeave(f)
         [] OTHER ->
                /\ semaphore' = semaphore + 1
                /\ GLeave(f)
    /\ UNCHANGED gothers

\* 279-280, 310-311, 195, 317: the backoff sleep ends
GBackoff(f) ==
    /\ BagIn(f, calls)
    /\ f.pc \in {"backoff_in", "backoff_out"}
    /\ semaphore' = semaphore + (IF f.pc = "backoff_in" THEN 1 ELSE 0)
    /\ IF AttemptsLeft(f.attempt)
       THEN GMove(f, GFrame("gate", f.attempt + 1))
       ELSE GLeave(f)
    /\ UNCHANGED gothers

GNext ==
    \/ \E f \in DOMAIN calls : GGate(f)
    \/ \E f \in DOMAIN calls, way \in GWays : GExit(f, way)
    \/ \E f \in DOMAIN calls : GBackoff(f)

GSpec == GInit /\ [][GNext]_vars

(***************************************************************************)
(* Properties of verify_token_balance, checked under VSpec.                *)
(***************************************************************************)
IsReading(r) == r # None
Successes(reads) == SelectSeq(reads, IsReading)
NoEmptyReading(reads) ==
    \A i \in 1..Len(reads) : reads[i] # None => reads[i][1] > 0
HasEqualPositivePair(reads) ==
    \E i \in 1..(Len(reads) - 1) :
        /\ reads[i] # None
        /\ reads[i][1] > 0
        /\ reads[i + 1] = reads[i]
EndsInThreeEqual(reads) ==
    LET s == Successes(reads)
        n == Len(s)
    IN n >= 3 /\ s[n] = s[n - 1] /\ s[n - 1] = s[n - 2]

\* C4 as stated: a sequence of min_retries reads with two consecutive equal
\* positive raw amounts makes verify_token_balance return valid = true.
C4_TwoEqualReadsSuffice ==
    (Len(v_reads) = v_n /\ v_st.done /\ HasEqualPositivePair(v_reads))
        => v_st.valid

\* C4 amended: the call returns within min_retries reads, and a sequence of
\* min_retries reads without an amount <= 0 whose last three successful
\* reads are equal makes it return valid = true with the last successful
\* reading.
C4_ThreeEqualReadsAtEnd ==
    /\ Len(v_reads) <= v_n
    /\ Len(v_reads) = v_n => v_st.done
    /\ (Len(v_reads) = v_n /\ NoEmptyReading(v_reads) /\ EndsInThreeEqual(v_reads))
           => /\ v_st.valid
              /\ v_st.info = Successes(v_reads)[Len(Successes(v_reads))]
C4_Witness ==
    /\ v_n = 4
    /\ v_reads = << <<50>>, <<100>>, <<100>>, <<100>> >>
    /\ v_st.done /\ v_st.valid

\* C5: as soon as one read returns a raw amount <= 0 the verifier has
\* returned (false, None), and that read is the last one made, whatever
\* was read before it.
C5_EmptyReadingEndsVerification ==
    \A i \in 1..Len(v_reads) :
        (v_reads[i] # None /\ v_reads[i][1] <= 0)
            => /\ i = Len(v_reads)
               /\ v_st.done /\ ~v_st.valid /\ v_st.info = None
C5_Witness ==
    /\ v_n = 3
    /\ v_reads = << <<100>>, <<50>>, <<0>> >>
    /\ v_st.done /\ ~v_st.valid /\ v_st.info = None

\* C6: for every min_retries and every sequence of reads, failed reads
\* included, a result valid = true carries a reading with raw amount > 0.
C6_ValidMeansPositive ==
    (v_st.done /\ v_st.valid) => (v_st.info # None /\ v_st.info[1] > 0)
C6_Witness ==
    /\ v_st.done /\ v_st.valid
    /\ \E i \in 1..Len(v_reads) : v_reads[i] = None

(***************************************************************************)
(* Properties of the bot, checked under Spec.                              *)
(***************************************************************************)
MonitorAlive(t) == task[t].pc \notin {"none", "done"}

\* the positions the bot holds or is still working on
OpenPositions == {t \in Tokens : current_position = t \/ MonitorAlive(t)}

\* C1: in every reachable state, however the discovery loop and the
\* position monitors interleave, there are 0 or 1 open positions.
C1_AtMostOnePosition == Cardinality(OpenPositions) <= 1
C1_Witness ==
    /\ current_position = 2
    /\ 1 \in blacklisted_tokens
    /\ task[2].pc = "poll"
    /\ task[Disc].pc = "sleep3"

\* C2: while listen_for_events is inside execute_trade(BUY), from the call
\* to its return, the swap request included, no position is open.
C2_NoBuyWhileInPosition ==
    InExec(task[Disc]) => current_position = NoToken
C2_Witness ==
    /\ task[Disc].pc = "swap"
    /\ task[Disc].action = "BUY"
    /\ trades_executed >= 1

\* the caller of execute_trade has the value False in hand and is out of
\* the call (in the next state)
ReturnedFalse(self) ==
    IF self = Disc
    THEN task'[Disc].pc = "sleep10" /\ ~task'[Disc].result
    ELSE task'[self].pc = "vb"

\* C3: a BUY attempt that starts at a time now < cooldown_end_time returns
\* false at once: no retry, no permit kept, no request issued.
C3_CooldownRejectsBuy ==
    [][(/\ task[Disc].pc = "gate"
        /\ task[Disc].action = "BUY"
        /\ now < cooldown_end_time
        /\ task'[Disc] # task[Disc])
         => /\ ReturnedFalse(Disc)
            /\ semaphore' = semaphore
            /\ UNCHANGED <<posvars, blacklisted_tokens>>
            /\ \A t \in Tokens : task'[t] = task[t]]_vars
C3_Witness ==
    /\ log = [by |-> Disc, msgs |-> <<"Cooldown active">>]
    /\ task[Disc].pc = "sleep10"
    /\ ~task[Disc].result
    /\ now < cooldown_end_time

\* the schedule of C7, multipliers in tenths
Schedule == << <<10, 2000>>, <<15, 3000>>, <<20, 4000>>, <<30, 5000>> >>

\* C7: a monitor makes at most 4 sell attempts, and while it is in its
\* k-th call of execute_trade the call's (priority multiplier, slippage) is
\* the k-th tuple of the schedule; the swap request carries them.
C7_SellSchedule ==
    \A t \in Tokens :
        InExec(task[t]) =>
            LET f == task[t] IN
            /\ f.action = "SELL"
            /\ f.retry_count \in 0..3
            /\ <<f.priority_multiplier, f.slippage_bps>> = Schedule[f.retry_count + 1]
            /\ f.params # None =>
                   /\ f.params[1].slippage = Schedule[f.retry_count + 1][2]
                   /\ f.params[1].priorityMicroLamports * 10
                          = 100000 * Schedule[f.retry_count + 1][1]
C7_Witness ==
    \E t \in Tokens :
        /\ task[t].pc = "swap"
        /\ task[t].retry_count = 3
        /\ task[t].params[1].slippage = 5000

\* C8: one execute_trade call makes at most 4 attempts (attempt = 0..3);
\* when the 4th ends in a transient condition (a network error, or a known
\* transient broadcast error and its backoff) the call returns false.
C8_AtMostFourAttempts ==
    [][\A self \in Tasks :
        /\ InExec(task'[self]) => task'[self].attempt \in 0..3
        /\ (/\ InExec(task[self])
            /\ task[self].attempt = 3
            /\ task'[self] # task[self]
            /\ \/ task[self].pc \in {"backoff_in", "backoff_out"}
               \/ /\ log'.by = self
                  /\ log'.msgs = <<"Network failure after retries">>)
             => ReturnedFalse(self)
        /\ (/\ InExec(task[self])
            /\ task[self].attempt = 3
            /\ log'.by = self
            /\ log'.msgs = <<"Transient error detected, retrying">>)
             => task'[self].pc = "backoff_in" /\ task'[self].attempt = 3]_vars
C8_Witness ==
    \E self \in Tasks :
        /\ task[self].pc = "backoff_in"
        /\ task[self].attempt = 3

\* what execute_trade logs on a failure that is not transient
TerminalMsgs == {"Swap API error", "Insufficient SOL balance",
                 "Failed to verify token balance for sale", "Transaction failed"}
LogsTerminal(l) == \E i \in 1..Len(l.msgs) : l.msgs[i] \in TerminalMsgs

\* C9: when an attempt of execute_trade ends in a non-transient failure
\* (gateway success = false, insufficient SOL, failed balance verification
\* of a SELL, non-transient broadcast error), the call returns false there:
\* the caller is out of the call, the permit is back, nothing else changed.
C9_TerminalFailureNoRetry ==
    [][\A self \in Tasks :
        (InExec(task[self]) /\ log'.by = self /\ LogsTerminal(log'))
            => /\ ReturnedFalse(self)
               /\ semaphore' = semaphore + 1
               /\ UNCHANGED <<posvars, blacklisted_tokens>>]_vars
C9_Witness ==
    \E t \in Tokens :
        /\ log = [by |-> t, msgs |-> <<"Swap API error">>]
        /\ task[t].pc = "vb"
        /\ task[t].retry_count = 0

\* C10: when a sell attempt k < 4 returns false (the monitor leaves
\* execute_trade with the position still its own) the monitor re-verifies
\* the balance; when that verification succeeds (the monitor leaves it with
\* the position still held) it sleeps with retry_count = k, and from the
\* sleep it calls execute_trade for attempt k + 1 with the next tuple.
C10_MonitorRetriesAfterFailedSell ==
    [][\A t \in Tokens :
        /\ (/\ InExec(task[t]) /\ ~InExec(task'[t])
            /\ current_position' = t)
             => /\ task'[t].pc = "vb"
                /\ task'[t].retry_count = task[t].retry_count
        /\ (/\ task[t].pc = "vb" /\ task'[t].pc # "vb"
            /\ task[t].retry_count < 3
            /\ current_position' # NoToken)
             => /\ task'[t].pc = "sellsleep"
                /\ task'[t].retry_count = task[t].retry_count + 1
        /\ (task[t].pc = "sellsleep" /\ task'[t] # task[t])
             => /\ task'[t].pc = "gate"
                /\ task'[t].action = "SELL"
                /\ task'[t].attempt = 0
                /\ task'[t].retry_count = task[t].retry_count
                /\ <<task'[t].priority_multiplier, task'[t].slippage_bps>>
                       = Schedule[task[t].retry_count + 1]]_vars
C10_Witness ==
    \E t \in Tokens :
        /\ task[t].pc = "gate"
        /\ task[t].action = "SELL"
        /\ task[t].retry_count = 1
        /\ current_position = t

\* what a network error or timeout on a request of the attempt leaves in the
\* log: the handler of execute_trade (307-313), or get_sol_balance (334)
NetErrMsgs == {"Network error, retrying", "Network failure after retries",
               "SOL balance check failed"}

\* C11: a network error or timeout on a request of an attempt (SOL balance
\* query, swap request, broadcast) made with fewer than 3 retries used sends
\* the call to its backoff and the next attempt; the call does not return.
C11_NetworkErrorRetried ==
    [][\A self \in Tasks :
        (/\ InExec(task[self])
         /\ task[self].attempt < max_retries
         /\ log'.by = self
         /\ log'.msgs # <<>>
         /\ log'.msgs[1] \in NetErrMsgs)
            => /\ task'[self].pc = "backoff_out"
               /\ task'[self].attempt = task[self].attempt]_vars

\* the step in which the monitor task of t ends
MonitorEnds(t) == MonitorAlive(t) /\ task'[t].pc = "done"

\* C12: whenever a monitor task ends (the sale succeeded, the position was
\* abandoned, or the 4 sell attempts are used up), no position is current.
C12_MonitorEndClearsPosition ==
    [][\A t \in Tokens : MonitorEnds(t) => current_position' = NoToken]_vars

\* what the monitor logs when it gives the position up (376, 397)
AbandonMsgs == {"Token balance verification failed after retry",
                "Lost token balance during sell attempts"}
Abandons(t) ==
    /\ log'.by = t
    /\ log'.msgs # <<>>
    /\ log'.msgs[Len(log'.msgs)] \in AbandonMsgs

\* the step in which execute_trade(SELL) of self succeeds (295-305)
SellCompletes(self) ==
    /\ task[self].pc = "price"
    /\ task[self].action = "SELL"
    /\ task'[self].pc # "price"

\* C13: a step in which the monitor gives the position up (verification
\* failed twice after the trigger, or the balance was lost between sell
\* attempts) clears current_position and leaves total_profit, trades_executed
\* and cooldown_end_time as they were; total_profit and cooldown_end_time
\* change only in the step that completes a successful SELL.
C13_AbandonLeavesStatistics ==
    [][/\ \A t \in Tokens :
            Abandons(t) => /\ current_position' = NoToken
                           /\ UNCHANGED <<total_profit, trades_executed,
                                          cooldown_end_time>>
       /\ (total_profit' # total_profit \/ cooldown_end_time' # cooldown_end_time)
            => \E self \in Tasks : SellCompletes(self)]_vars
C13_Witness ==
    \E t \in Tokens :
        /\ log.by = t
        /\ log.msgs = <<"Lost token balance during sell attempts">>
        /\ task[t].pc = "done"
        /\ current_position = NoToken
        /\ trades_executed = 1
        /\ cooldown_end_time = 0

\* a BUY swap request of self has been issued and is not answered yet
BuyRequestInFlight(self) ==
    /\ task[self].pc = "swap"
    /\ task[self].action = "BUY"
    /\ task[self].params # None
    /\ task[self].params[1].fromMint = sol_mint

\* C14: the step that completes a successful SELL at time now clears the
\* position and sets cooldown_end_time = now + 15; and whenever a BUY swap
\* request is in flight the cooldown set by the last sale is over.
C14_CooldownAfterSell ==
    /\ [][\A self \in Tasks :
            SellCompletes(self) => /\ current_position' = NoToken
                                   /\ position_open_time' = NoTime
                                   /\ cooldown_end_time' = now + CooldownSecs]_vars
    /\ [](\A self \in Tasks :
            BuyRequestInFlight(self) => now >= cooldown_end_time)
C14_Witness ==
    /\ BuyRequestInFlight(Disc)
    /\ cooldown_end_time = CooldownSecs
    /\ now = cooldown_end_time
    /\ task[Disc].token = 2
    /\ task[1].pc = "done"

\* the step in which the price oracle answers p to a SELL of self whose
\* broadcast was accepted
SellPriced(self, p) ==
    /\ task[self].pc = "price"
    /\ task[self].action = "SELL"
    /\ ExecPrice(self, p)

\* C15 as claimed: every successful SELL has a sell price p, and raises
\* total_profit by exactly (p - buy_price) * quantity held.
C15_EverySellAddsProfit ==
    [][\A self \in Tasks :
        SellCompletes(self) =>
            \E p \in Prices \ {0} :
                /\ SellPriced(self, p)
                /\ total_profit' = total_profit
                       + (p - buy_price) * task[self].token_info[1]]_vars

\* C15: a successful SELL whose price fetch returns a price p raises
\* total_profit by exactly (p - buy_price) * quantity held, where buy_price
\* has not changed since the BUY that opened the position; a successful SELL
\* whose price fetch returns no price leaves total_profit unchanged.  In
\* both cases execute_trade returns true.
C15_SellAddsProfitWhenPriced ==
    [][/\ \A self \in Tasks, p \in Prices :
            SellPriced(self, p) =>
                /\ task[self].token_info # None
                /\ total_profit' = total_profit
                       + (IF p # 0
                          THEN (p - buy_price) * task[self].token_info[1]
                          ELSE 0)
                /\ ~ReturnedFalse(self)
                /\ ~InExec(task'[self])
       /\ current_position # NoToken => buy_price' = buy_price
       /\ current_position' \notin {NoToken, current_position}
            => buy_price' # 0 /\ position_open_time' = now]_vars
C15_Witness ==
    \E t \in Tokens :
        /\ log = [by |-> t, msgs |-> <<"Sold">>]
        /\ task[t].pc = "done"
        /\ buy_price = 100
        /\ total_profit = 15 * 50

\* the step in which the price oracle answers p to the BUY of
\* listen_for_events whose broadcast was accepted
BuyPriced(p) ==
    /\ task[Disc].pc = "price"
    /\ task[Disc].action = "BUY"
    /\ ExecPrice(Disc, p)

\* C16: when the broadcast of a BUY was accepted and the price fetch returns
\* no price, execute_trade returns false: no position is opened, the trade
\* count stays, and no monitor task is created.
C16_BuyWithoutPriceFails ==
    [][BuyPriced(0) =>
          /\ ReturnedFalse(Disc)
          /\ current_position' = NoToken
          /\ position_open_time' = position_open_time
          /\ trades_executed' = trades_executed
          /\ \A t \in Tokens : task'[t] = task[t]]_vars
C16_Witness ==
    /\ log = [by |-> Disc,
              msgs |-> <<"Price check failed", "Failed to verify buy price">>]
    /\ task[Disc].pc = "sleep10"
    /\ ~task[Disc].result
    /\ current_position = NoToken
    /\ trades_executed = 0
    /\ \A t \in Tokens : task[t].pc = "none"

\* C17: the blacklist only grows; the step in which a BUY of T succeeds
\* leaves T on it; and execute_trade(T, BUY) is never called, nor running,
\* for a T that is on it.
C17_NoDoubleBuy ==
    /\ [][/\ blacklisted_tokens \subseteq blacklisted_tokens'
          /\ \A p \in Prices \ {0} :
                BuyPriced(p) => /\ task'[Disc].result
                                /\ task[Disc].token \in blacklisted_tokens'
          /\ (task[Disc].pc = "pair" /\ task'[Disc].pc = "gate")
                => task'[Disc].token \notin blacklisted_tokens]_vars
    /\ [](InExec(task[Disc]) =>
            /\ task[Disc].action = "BUY"
            /\ task[Disc].token \notin blacklisted_tokens)
C17_Witness ==
    /\ log = [by |-> Disc, msgs |-> <<"Already traded">>]
    /\ blacklisted_tokens = {1}
    /\ trades_executed = 1
    /\ current_position = NoToken
    /\ task[Disc].pc = "sleep10"

\* the step in which execute_trade(T, BUY) returns to listen_for_events
BuyReturns == InExec(task[Disc]) /\ ~InExec(task'[Disc])

\* C18: when execute_trade(T, BUY) returns, true or false, T is on the
\* blacklist, and it stays there.
C18_AttemptedBuyBlacklisted ==
    [][/\ BuyReturns => task[Disc].token \in blacklisted_tokens'
       /\ blacklisted_tokens \subseteq blacklisted_tokens']_vars

\* C19 as claimed: a step that does not complete a successful SELL leaves
\* trades_executed and total_profit unchanged.
C19_StatisticsOnlyOnSell ==
    [][(~ \E self \in Tasks : SellCompletes(self))
            => UNCHANGED <<trades_executed, total_profit>>]_vars

\* C19: total_profit changes only in the step that completes a successful
\* SELL, and trades_executed only in the step that completes a successful
\* BUY, which adds one to it; a successful BUY leaves total_profit and a
\* successful SELL leaves trades_executed unchanged.
C19_StatisticsOnSellAndBuy ==
    [][/\ total_profit' # total_profit => \E self \in Tasks : SellCompletes(self)
       /\ trades_executed' # trades_executed
            => \E p \in Prices \ {0} : BuyPriced(p)
       /\ \A p \in Prices \ {0} :
            BuyPriced(p) => /\ trades_executed' = trades_executed + 1
                            /\ total_profit' = total_profit
       /\ \A self \in Tasks :
            SellCompletes(self) => trades_executed' = trades_executed]_vars
C19_Witness ==
    /\ trades_executed = 2
    /\ total_profit = 15 * 100
    /\ current_position = 2
    /\ log = [by |-> Disc, msgs |-> <<"Bought">>]

\* the step in which the price oracle answers p > 0 to the poll of the
\* monitor of t, the position having a buy price and an opening time
PollPriced(t, p) ==
    /\ task[t].pc = "poll"
    /\ p # 0
    /\ buy_price > 0
    /\ position_open_time # NoTime
    /\ MonPoll(t, p)

\* C20: at a poll with a price, a profit of 15 % or more makes the exit
\* reason the profit target whatever the holding time; the reason is the
\* timeout exactly when the profit is below 15 % and the position has been
\* held 20 minutes or more; otherwise no exit is triggered.
C20_FirstMatchWins ==
    [][\A t \in Tokens, p \in Prices :
        PollPriced(t, p) =>
            LET target == (p - buy_price) * 100 >= 15 * buy_price
                held == now - position_open_time >= 20 * 60
            IN
            /\ target => /\ log'.msgs = <<"Exit triggered", "profit">>
                         /\ task'[t].pc = "v1"
            /\ (~target /\ held) => /\ log'.msgs = <<"Exit triggered", "timeout">>
                                    /\ task'[t].pc = "v1"
            /\ (~target /\ ~held) => /\ log' = NoLog
                                     /\ task'[t].pc = "sleep2"]_vars
C20_Witness ==
    \E t \in Tokens :
        /\ log = [by |-> t, msgs |-> <<"Exit triggered", "profit">>]
        /\ task[t].pc = "v1"
        /\ now - position_open_time >= HoldSecs

\* C21: at a poll with a price where the profit is below 15 % and the
\* position has been held less than 20 minutes, however low the price, the
\* monitor starts no exit: it goes to its 2 s sleep, nothing of the position
\* changes, no permit is taken; and from that sleep it polls again.
C21_NoStopLoss ==
    [][\A t \in Tokens :
        /\ \A p \in Prices :
            (/\ PollPriced(t, p)
             /\ (p - buy_price) * 100 < 15 * buy_price
             /\ now - position_open_time < 20 * 60)
                => /\ task'[t].pc = "sleep2"
                   /\ UNCHANGED <<posvars, semaphore, blacklisted_tokens>>
                   /\ \A u \in Tasks \ {t} : task'[u] = task[u]
        /\ (/\ task[t].pc = "sleep2"
            /\ task'[t] # task[t]
            /\ current_position = t)
                => task'[t].pc = "poll"]_vars
C21_Witness ==
    \E t \in Tokens :
        /\ task[t].pc = "sleep2"
        /\ log = NoLog
        /\ buy_price = 115
        /\ current_position = t
        /\ now - position_open_time < HoldSecs
        /\ now = 0
        /\ task[Disc].pc = "sleep10"

\* the step in which the read r ends, with the result invalid, the
\* verification the monitor of t makes at pc
MonVerifyFails(t, pc, r) ==
    /\ task[t].pc = pc
    /\ MonVerify(t, r)
    /\ VStep(task[t].v, r, DefaultMinRetries).done
    /\ ~VStep(task[t].v, r, DefaultMinRetries).valid

\* C22: after an exit trigger, a failed verification leads to one pause and
\* one more verification, and when that fails too the monitor clears the
\* current position and ends; on the way it never enters execute_trade
\* (no permit taken), and an ended monitor stays ended.
C22_AbandonAfterTwoFailedVerifications ==
    [][\A t \in Tokens :
        /\ \A r \in Reads :
            /\ MonVerifyFails(t, "v1", r)
                 => task'[t].pc = "vpause" /\ current_position' = current_position
            /\ MonVerifyFails(t, "v2", r)
                 => /\ task'[t].pc = "done"
                    /\ current_position' = NoToken
                    /\ semaphore' = semaphore
        /\ (task[t].pc = "vpause" /\ task'[t] # task[t])
             => task'[t].pc = "v2" /\ task'[t].v = VBegin(DefaultMinRetries)
        /\ (task[t].pc = "poll" /\ task'[t] # task[t]) => ~InExec(task'[t])
        /\ task[t].pc = "done" => task'[t].pc = "done"]_vars
C22_Witness ==
    \E t \in Tokens :
        /\ log.by = t
        /\ log.msgs = <<"Token balance verification failed after retry">>
        /\ task[t].pc = "done"
        /\ current_position = NoToken
        /\ trades_executed = 1
        /\ semaphore = SemaphoreCapacity

\* the step in which execute_trade(SELL) returns false to the monitor of t
SellFails(t) == InExec(task[t]) /\ ~InExec(task'[t]) /\ task'[t].pc # "done"

\* C23: after every failed sell attempt the monitor verifies the balance
\* before anything else; when that verification fails the monitor clears the
\* current position and ends without another sell attempt; it makes the
\* next attempt only after a verification that succeeded.
C23_StopEarlyWhenBalanceLost ==
    [][\A t \in Tokens :
        /\ SellFails(t) => /\ task'[t].pc = "vb"
                           /\ task'[t].v = VBegin(DefaultMinRetries)
                           /\ task'[t].retry_count = task[t].retry_count
        /\ \A r \in Reads :
            MonVerifyFails(t, "vb", r)
                 => /\ task'[t].pc = "done"
                    /\ current_position' = NoToken
                    /\ semaphore' = semaphore
        /\ (task[t].pc = "vb" /\ task'[t] # task[t])
             => task'[t].pc \in {"vb", "sellsleep", "done"}
        /\ task[t].pc = "done" => task'[t] = task[t]]_vars
C23_Witness ==
    \E t \in Tokens :
        /\ log.by = t
        /\ log.msgs = <<"Zero balance detected",
                        "Lost token balance during sell attempts">>
        /\ task[t].pc = "done"
        /\ current_position = NoToken
        /\ semaphore = SemaphoreCapacity

\* a SELL swap request of self has been issued and is not answered yet
SellRequestInFlight(self) ==
    /\ task[self].pc = "swap"
    /\ task[self].action = "SELL"

\* C24: whenever a SELL swap request is in flight, it is for the token that
\* is the current position, the attempt holds a positive reading and the
\* amount requested is that reading's raw amount; and the step that issues
\* it is the one in which the verification made in that attempt ended valid
\* with that reading.
C24_SellOnlyVerifiedBalance ==
    /\ [](\A self \in Tasks :
            SellRequestInFlight(self) =>
                LET f == task[self] IN
                /\ self = f.token
                /\ current_position = f.token
                /\ f.token_info # None
                /\ f.token_info[1] > 0
                /\ f.params # None
                /\ f.params[1].fromMint = f.token
                /\ f.params[1].toMint = sol_mint
                /\ f.params[1].amount = f.token_info[1])
    /\ [][\A self \in Tasks :
            (SellRequestInFlight(self)' /\ task[self].pc # "swap")
                => /\ task[self].pc = "sv"
                   /\ task[self].attempt = task'[self].attempt
                   /\ \E r \in Reads :
                        /\ r # None
                        /\ r[1] > 0
                        /\ ExecVerify(self, r)
                        /\ task[self].v.confirmations + 1 >= 2
                        /\ task[self].v.last_info = r
                        /\ task'[self].token_info = r]_vars
C24_Witness ==
    \E t \in Tokens :
        /\ SellRequestInFlight(t)
        /\ task[t].params[1].amount = 100
        /\ task[t].attempt = 1
        /\ current_position = t

(***************************************************************************)
(* The session alone: any sequence of up to MaxOps calls of get_session    *)
(* (swap.py 58-64) and close (415-417).  s_ops records each call and       *)
(* whether it raised; released counts the calls of ClientSession.close().  *)
(***************************************************************************)
sothers == <<now, posvars, blacklisted_tokens, semaphore, task, log, vvars,
             calls>>

\* mutant: close() releases the session without looking at it
ShouldReleaseAlways(s) == TRUE

\* 416: if self.session and not self.session.closed
ShouldRelease(s) == s # "none" /\ s # "closed"

SInit ==
    /\ BotInit
    /\ v_n = DefaultMinRetries
    /\ v_reads = <<>>
    /\ v_st = VBegin(DefaultMinRetries)
    /\ HIdle

SOp(op, raised) == [op |-> op, raised |-> raised]

\* 58-64: get_session()
SGet ==
    /\ Len(s_ops) < MaxOps
    /\ session' = GetSession(session)
    /\ released' = released
    /\ s_ops' = Append(s_ops, SOp("get", FALSE))
    /\ UNCHANGED sothers

\* 415-417: close().  self.session.close() on None raises AttributeError;
\* on a ClientSession it releases the connector.
SClose ==
    /\ Len(s_ops) < MaxOps
    /\ IF ~ShouldRelease(session)
       THEN /\ UNCHANGED <<session, released>>
            /\ s_ops' = Append(s_ops, SOp("close", FALSE))
       ELSE IF session = "none"
       THEN /\ UNCHANGED <<session, released>>
            /\ s_ops' = Append(s_ops, SOp("close", TRUE))
       ELSE /\ session' = "closed"
            /\ released' = released + 1
            /\ s_ops' = Append(s_ops, SOp("close", FALSE))
    /\ UNCHANGED sothers

SNext == SGet \/ SClose

SSpec == SInit /\ [][SNext]_vars

(***************************************************************************)
(* Properties of the concurrency gate, checked under GSpec.                *)
(***************************************************************************)
\* the calls that are past the gate: they hold a permit
PastGate == {f \in DOMAIN calls : f.pc \in {"in", "backoff_in"}}
NumPastGate == BagCardinality([f \in PastGate |-> calls[f]])

\* C25: with more calls requested at once than there are permits, at most 5
\* calls are past the gate at any moment; the free permits are always 5
\* minus the calls past the gate, so every permit taken comes back however
\* the attempt ends, and the free permits are 5 when no call is in progress.
C25_AtMostFivePastGate ==
    /\ NumPastGate <= 5
    /\ semaphore = 5 - NumPastGate
    /\ calls = EmptyBag => semaphore = 5
C25_Witness ==
    /\ semaphore = 0
    /\ BagIn(GFrame("gate", 0), calls)
    /\ BagIn(GFrame("backoff_in", 1), calls)
    /\ BagIn(GFrame("in", 3), calls)
    /\ BagCardinality(calls) = NumCallers

(***************************************************************************)
(* Further properties of the bot, checked under Spec.                      *)
(***************************************************************************)
\* the step in which the monitor task of t is created
MonitorSpawned(t) == task[t].pc # "new" /\ task'[t].pc = "new"

\* C26: a monitor task is created only in the step in which a BUY of its
\* token returns success to listen_for_events; every successful BUY creates
\* the monitor of the bought token and touches no other monitor; and at most
\* one monitor task is alive at any time.
C26_OneMonitorPerBuy ==
    /\ [][/\ \A t \in Tokens :
                MonitorSpawned(t) =>
                    /\ \E p \in Prices \ {0} : BuyPriced(p)
                    /\ task[Disc].token = t
                    /\ task'[Disc].result
                    /\ ~InExec(task'[Disc])
                    /\ task[t].pc = "none"
          /\ \A p \in Prices \ {0} :
                BuyPriced(p) =>
                    /\ MonitorSpawned(task[Disc].token)
                    /\ \A u \in Tokens \ {task[Disc].token} : task'[u] = task[u]]_vars
    /\ [](Cardinality({t \in Tokens : MonitorAlive(t)}) <= 1)
C26_Witness ==
    /\ task[2].pc = "new"
    /\ task[1].pc = "done"
    /\ trades_executed = 2
    /\ task[Disc].result
    /\ task[Disc].pc = "sleep10"

\* the monitor of t is at the head of its loop (swap.py 351)
AtLoopHead(t) == task[t].pc \in {"new", "sleep2", "sleep5"}

\* C27: a live monitor task of T exists only while T is the current
\* position: it goes from the head of its loop to the price fetch with T
\* current, the step that makes the current position other than T ends the
\* task, and an ended task does nothing more.
C27_MonitorOnlyWhileCurrent ==
    /\ [](\A t \in Tokens : MonitorAlive(t) => current_position = t)
    /\ [][\A t \in Tokens :
            /\ (AtLoopHead(t) /\ task'[t] # task[t])
                => current_position = t /\ task'[t].pc = "poll"
            /\ (current_position = t /\ current_position' # t)
                => task'[t].pc = "done"
            /\ task[t].pc = "done" => task'[t] = task[t]]_vars
C27_Witness ==
    /\ task[2].pc = "poll"
    /\ task[1].pc = "done"
    /\ current_position = 2
    /\ 1 \in blacklisted_tokens
    /\ cooldown_end_time = 0

(***************************************************************************)
(* Properties of the session, checked under SSpec.                         *)
(***************************************************************************)
\* the step is a call of close()
ClosesNow == /\ Len(s_ops') = Len(s_ops) + 1
             /\ s_ops'[Len(s_ops')].op = "close"
\* the call before this step was a close()
ClosedJustBefore == s_ops # <<>> /\ s_ops[Len(s_ops)].op = "close"

\* C28: after any sequence of get_session and close calls, a close() never
\* raises and leaves the session not open; a close() that follows a close()
\* releases nothing and changes nothing; and a close() before any session
\* was made releases nothing and leaves no session.
C28_CloseIdempotent ==
    [][ClosesNow =>
          /\ ~s_ops'[Len(s_ops')].raised
          /\ session' # "open"
          /\ released' - released = (IF session = "open" THEN 1 ELSE 0)
          /\ ClosedJustBefore => (released' = released /\ session' = session)
          /\ session = "none" => (released' = released /\ session' = "none")]_vars
C28_Witness ==
    /\ Len(s_ops) = 5
    /\ [i \in 1..5 |-> s_ops[i].op] = <<"get", "close", "get", "close", "close">>
    /\ released = 2
    /\ session = "closed"

(***************************************************************************)
(* Further properties of verify_token_balance, checked under VSpec.        *)
(***************************************************************************)
\* three reads that all succeed with one and the same positive raw amount
ThreeEqualPositive(reads) ==
    /\ Len(reads) = 3
    /\ \A i \in 1..3 : /\ reads[i] # None
                       /\ reads[i][1] > 0
                       /\ reads[i] = reads[1]

\* C29: with min_retries = 3 the call returns valid = true exactly when it
\* made three reads that all succeeded with the same positive raw amount,
\* and then it returns that reading; any failed read, any change, any
\* amount <= 0 makes it return valid = false.
C29_DefaultThreeEqualReads ==
    (v_n = 3 /\ v_st.done) =>
        /\ v_st.valid <=> ThreeEqualPositive(v_reads)
        /\ v_st.valid => v_st.info = v_reads[3]
        /\ (\E i \in 1..Len(v_reads) :
                v_reads[i] = None \/ v_reads[i][1] <= 0 \/ v_reads[i] # v_reads[1])
             => ~v_st.valid
C29_Witness ==
    /\ v_n = 3
    /\ v_reads = << <<100>>, <<100>>, <<100>> >>
    /\ v_st.done
    /\ v_st.valid
    /\ v_st.info = <<100>>

\* the step is a read that failed
FailedReadNow == v_reads' = Append(v_reads, None)

\* C30: a failed read uses up one of the min_retries reads and leaves the
\* confirmation counter and the last reading as they were; the call goes on
\* with the next read when one is left, and otherwise returns what the
\* counter says, with the last successful reading.
C30_FailedReadNonConfirming ==
    [][FailedReadNow =>
          /\ v_st'.i = v_st.i + 1
          /\ v_st'.confirmations = v_st.confirmations
          /\ v_st'.last_info = v_st.last_info
          /\ v_st.i + 1 < v_n => ~v_st'.done
          /\ v_st.i + 1 >= v_n =>
                /\ v_st'.done
                /\ v_st'.valid <=> v_st.confirmations >= 2
                /\ v_st'.info = v_st.last_info]_vars
C30_Witness ==
    /\ v_n = 4
    /\ v_reads = << <<100>>, None, <<100>>, <<100>> >>
    /\ v_st.done
    /\ v_st.valid
    /\ v_st.info = <<100>>

\* the step in which the price oracle gives the poll of the monitor of t
\* no price
PollUnpriced(t) ==
    /\ task[t].pc = "poll"
    /\ MonPoll(t, 0)

\* the monitor of t is between an exit trigger and the end of its sale
InExit(t) ==
    \/ task[t].pc \in {"v1", "vpause", "v2", "vb", "sellsleep"}
    \/ InExec(task[t])

\* C31: a poll that gets no price triggers no exit, however long the
\* position has been held: the monitor goes to its 2 s sleep, logs no exit,
\* and the position, its opening time and the statistics stay as they were;
\* an exit starts only in a poll that got a price, and the position of t is
\* closed only by the monitor of t after such a trigger.
C31_NoExitWithoutPrice ==
    [][\A t \in Tokens :
        /\ PollUnpriced(t)
            => /\ task'[t].pc = "sleep2"
               /\ log'.msgs = <<"Price check failed">>
               /\ UNCHANGED <<posvars, semaphore, blacklisted_tokens>>
               /\ \A u \in Tasks \ {t} : task'[u] = task[u]
        /\ (~InExit(t) /\ InExit(t)')
            => \E p \in Prices \ {0} : PollPriced(t, p)
        /\ (current_position = t /\ current_position' # t)
            => InExit(t)]_vars
C31_Witness ==
    \E t \in Tokens :
        /\ task[t].pc = "sleep2"
        /\ log = [by |-> t, msgs |-> <<"Price check failed">>]
        /\ current_position = t
        /\ now - position_open_time >= HoldSecs

\* C32: whenever a position is open the recorded buy price is positive, and
\* so it is whenever a monitor waits for the answer to its poll (the divisor
\* at 358); the BUY whose price fetch fails does write 0 into buy_price, but
\* in a step that starts and ends with no position open.
C32_OpenPositionHasBuyPrice ==
    /\ [](current_position # NoToken => buy_price > 0)
    /\ [](\A t \in Tokens : task[t].pc = "poll" => buy_price > 0)
    /\ [][BuyPriced(0) => /\ buy_price' = 0
                          /\ current_position = NoToken
                          /\ current_position' = NoToken]_vars
C32_Witness ==
    \E t \in Tokens :
        /\ current_position = t
        /\ task[t].pc = "poll"
        /\ buy_price = 100
        /\ trades_executed = 2

\* the step in which the execute_trade call of self returns False
TradeFails(self) == InExec(task[self]) /\ ReturnedFalse(self)

\* C33: a trade that fails leaves the bookkeeping as it was before the call:
\* the step in which execute_trade returns False, for BUY or SELL, and every
\* step taken while the call is in progress, leave current_position,
\* position_open_time, buy_price, trades_executed, total_profit and
\* cooldown_end_time unchanged.
C33_FailedTradeLeavesBookkeeping ==
    [][\A self \in Tasks :
        /\ TradeFails(self) => UNCHANGED posvars
        /\ (InExec(task[self]) /\ InExec(task'[self])) => UNCHANGED posvars]_vars

=============================================================================
